---------------------------- MODULE Spec2Model ----------------------------
(***************************************************************************)
(* A model of gormzap (src/unnamed/part_000, src/record.go): the gorm      *)
(* logger that decodes a variadic Print call into a Record, renders the    *)
(* SQL of a "sql" call with its bound values, and hands the Record to zap. *)
(*                                                                         *)
(* A Go string is a sequence of one-character strings; a Go interface{}    *)
(* value is a record [kind, n, s, in, err] (see V below).  Positions of a  *)
(* call's values are Go's, counted from 0 (see At).                        *)
(***************************************************************************)
EXTENDS Integers, Sequences, FiniteSets, TLC

VARIABLES
    level,        \* Logger.level
    encoderFunc,  \* Logger.encoderFunc
    pc,           \* per goroutine: where its Print call stands
    args,         \* per goroutine: the values of its Print call
    rec,          \* per goroutine: the Record newRecord returned
    entry,        \* per goroutine: what Print handed to the zap logger
    op,           \* which renderer function is applied: "sql" | "val" | "none"
    tpl,          \* formatSQL: the template, as segments (see SegText)
    bound,        \* formatSQL: the bound values
    arg,          \* formatValue: the value
    out,          \* the string the renderer function returned
    done          \* whether the renderer function has returned

vars == <<level, encoderFunc, pc, args, rec, entry, op, tpl, bound, arg, out, done>>

loggerVars == <<level, encoderFunc, pc, args, rec, entry>>

formatVars == <<op, tpl, bound, arg, out, done>>

-----------------------------------------------------------------------------
(* Bounds of the model. *)

\* Goroutines calling Print concurrently.
NumProcs == 2

\* Values after the source in a "log" (or unknown-tag) call.
MaxLogArgs == 2

\* Segments (placeholders or literal text) of an enumerated template.
MaxSegs == 3

\* Length of the bound-value lists that are enumerated exhaustively.
MaxShort == 2

\* Largest number of bound values (and numbered placeholders) of a call.
MaxVals == 10

\* Nesting depth of driver.Valuer values.
MaxDepth == 2

\* Length of a string far beyond the redaction threshold.
LongLen == 300

\* const maxLen
maxLen == 255

-----------------------------------------------------------------------------
(* Go values. *)

V(kind, n, s, in, err) == [kind |-> kind, n |-> n, s |-> s, in |-> in, err |-> err]

Nil == V("nil", 0, <<>>, <<>>, FALSE)               \* the nil interface
Invalid == V("invalid", 0, <<>>, <<>>, FALSE)       \* the zero reflect.Value
Str(s) == V("string", 0, s, <<>>, FALSE)
IntV(n) == V("int", n, <<>>, <<>>, FALSE)
Int64V(n) == V("int64", n, <<>>, <<>>, FALSE)
Uint8(n) == V("uint8", n, <<>>, <<>>, FALSE)
Bool(b) == V("bool", IF b THEN 1 ELSE 0, <<>>, <<>>, FALSE)
Err(s) == V("error", 0, s, <<>>, FALSE)             \* errors.New(s): a *errorString
Dur(n) == V("duration", n, <<>>, <<>>, FALSE)       \* time.Duration of n whole seconds
Time(n) == V("time", n, <<>>, <<>>, FALSE)          \* n seconds after 2006-01-02 00:00:00
Bytes(s) == V("bytes", 0, s, <<>>, FALSE)           \* []byte
Slice(elems) == V("slice", 0, <<>>, elems, FALSE)   \* []interface{}
NilPtr == V("ptr", 0, <<>>, <<>>, FALSE)            \* a typed nil pointer
Ptr(v) == V("ptr", 0, <<>>, <<v>>, FALSE)           \* a pointer to v
Valuer(dv, err) == V("valuer", 0, <<>>, <<dv>>, err) \* Value() returns (dv, err)

\* values[i] of Go, i counted from 0
At(vals, i) == vals[i + 1]

\* values[i:] of Go
From(vals, i) == SubSeq(vals, i + 1, Len(vals))

-----------------------------------------------------------------------------
(* Text. *)

DigitChars == <<"0", "1", "2", "3", "4", "5", "6", "7", "8", "9">>

RECURSIVE Digits(_)
Digits(n) == IF n < 10 THEN <<DigitChars[n + 1]>>
             ELSE Digits(n \div 10) \o <<DigitChars[(n % 10) + 1]>>

\* fmt's %d of an integer
Itoa(n) == IF n < 0 THEN <<"-">> \o Digits(0 - n) ELSE Digits(n)

Pad2(n) == IF n < 10 THEN <<"0">> \o Digits(n) ELSE Digits(n)

Rep(c, n) == [i \in 1..n |-> c]

RECURSIVE Flatten(_)
Flatten(ss) == IF ss = <<>> THEN <<>> ELSE Head(ss) \o Flatten(Tail(ss))

HasPrefix(s, i, p) ==
    /\ i + Len(p) - 1 <= Len(s)
    /\ \A k \in 1..Len(p) : s[i + k - 1] = p[k]

\* strings.Contains
Contains(s, p) == \E i \in 1..(Len(s) + 1) : HasPrefix(s, i, p)

\* The bytes unicode.IsPrint rejects, among those of the model.
NonPrintable == {"NUL", "BEL"}

isPrintable(s) == \A i \in 1..Len(s) : s[i] \notin NonPrintable

NULL == <<"N", "U", "L", "L">>

Redacted == <<"'", "<", "r", "e", "d", "a", "c", "t", "e", "d", ">", "'">>

Binary == <<"'", "<", "b", "i", "n", "a", "r", "y", ">", "'">>

GormQuery == <<"g", "o", "r", "m", " ", "q", "u", "e", "r", "y">>

Quote(s) == <<"'">> \o s \o <<"'">>

\* time.Time.Format("2006-01-02 15:04:05"), for a time of day on 2006-01-02
TimeFormat(n) ==
    <<"2", "0", "0", "6", "-", "0", "1", "-", "0", "2", " ">>
        \o Pad2(n \div 3600) \o <<":">> \o Pad2((n \div 60) % 60)
        \o <<":">> \o Pad2(n % 60)

\* fmt's %v.  A time.Duration below one minute prints as its seconds and "s".
RECURSIVE FmtV(_)
RECURSIVE FmtList(_)
FmtList(elems) ==
    IF elems = <<>> THEN <<>>
    ELSE IF Len(elems) = 1 THEN FmtV(elems[1])
    ELSE FmtV(elems[1]) \o <<" ">> \o FmtList(Tail(elems))

FmtV(v) ==
    CASE v.kind = "nil" -> <<"<", "n", "i", "l", ">">>
      [] v.kind = "string" -> v.s
      [] v.kind \in {"int", "int64", "uint8"} -> Itoa(v.n)
      [] v.kind = "bool" -> IF v.n = 1 THEN <<"t", "r", "u", "e">>
                            ELSE <<"f", "a", "l", "s", "e">>
      [] v.kind = "error" -> v.s
      [] v.kind = "struct" -> <<"{">> \o v.s \o <<"}">>
      [] v.kind = "duration" -> Itoa(v.n) \o <<"s">>
      [] v.kind = "slice" -> <<"[">> \o FmtList(v.in) \o <<"]">>

\* fmt.Sprint: a space between two operands when neither is a string
RECURSIVE SprintFrom(_, _)
SprintFrom(vals, prevString) ==
    IF vals = <<>> THEN <<>>
    ELSE LET isString == Head(vals).kind = "string"
         IN  (IF ~isString /\ ~prevString THEN <<" ">> ELSE <<>>)
                 \o FmtV(Head(vals)) \o SprintFrom(Tail(vals), isString)

Sprint(vals) ==
    IF vals = <<>> THEN <<>>
    ELSE FmtV(Head(vals)) \o SprintFrom(Tail(vals), Head(vals).kind = "string")

-----------------------------------------------------------------------------
(* The SQL renderer. *)

redactLong_Inclusive(s) == IF Len(s) >= maxLen THEN Redacted ELSE s

redactLong(s) == IF Len(s) > maxLen THEN Redacted ELSE s

\* reflect.Indirect(reflect.ValueOf(value)): one pointer is followed; nil
\* and a nil pointer give the zero reflect.Value.  errors.New returns a
\* pointer to a struct, which Indirect follows as well.
Indirect(value) ==
    CASE value.kind = "nil" -> Invalid
      [] value.kind = "ptr" -> IF value.in = <<>> THEN Invalid ELSE value.in[1]
      [] value.kind = "error" -> V("struct", 0, value.s, <<>>, FALSE)
      [] OTHER -> value

RECURSIVE formatValue(_)

formatValue_IgnoreErr(value) ==
    LET v == Indirect(value)
    IN  CASE v.kind = "invalid" -> NULL
          [] v.kind = "time" -> Quote(TimeFormat(v.n))
          [] v.kind = "bytes" ->
                IF isPrintable(v.s) THEN redactLong(Quote(v.s)) ELSE Binary
          [] v.kind \in {"int", "int64", "uint8"} -> Itoa(v.n)
          [] v.kind = "valuer" ->
                IF v.in[1].kind # "nil" THEN formatValue(v.in[1]) ELSE NULL
          [] OTHER -> redactLong(Quote(FmtV(v)))

formatValue(value) ==
    LET v == Indirect(value)
    IN  CASE v.kind = "invalid" -> NULL
          [] v.kind = "time" -> Quote(TimeFormat(v.n))
          [] v.kind = "bytes" ->
                IF isPrintable(v.s) THEN redactLong(Quote(v.s)) ELSE Binary
          [] v.kind \in {"int", "int64", "uint8"} -> Itoa(v.n)
          [] v.kind = "valuer" ->
                IF ~v.err /\ v.in[1].kind # "nil"
                THEN formatValue(v.in[1]) ELSE NULL
          [] OTHER -> redactLong(Quote(FmtV(v)))

formatNumbered(index) == <<"$">> \o Itoa(index + 1)

formatQuestioned(index) == <<"?">>

\* strings.NewReplacer(oldnew...).Replace(s), for non-empty old strings: the
\* string is scanned from the left; where several old strings match, the one
\* given first among the arguments wins; a replacement is not scanned again.
RECURSIVE ReplaceFrom(_, _, _)
ReplaceFrom(pairs, s, i) ==
    IF i > Len(s) THEN <<>>
    ELSE LET m == {p \in 1..Len(pairs) : HasPrefix(s, i, pairs[p].old)}
         IN  IF m = {} THEN <<s[i]>> \o ReplaceFrom(pairs, s, i + 1)
             ELSE LET p == CHOOSE q \in m : \A r \in m : q <= r
                  IN  pairs[p].new \o ReplaceFrom(pairs, s, i + Len(pairs[p].old))

Replace(pairs, s) == ReplaceFrom(pairs, s, 1)

\* The replacements of formatSQL, as (old, new) pairs in argument order:
\* pair p is built from index i = size - p.
Replacements(sql, vals) ==
    LET size == Len(vals)
        numbered == Contains(sql, <<"$", "1">>)
        indexFunc(i) == IF numbered THEN formatNumbered(i) ELSE formatQuestioned(i)
    IN  [p \in 1..size |->
            [old |-> indexFunc(size - p), new |-> formatValue(At(vals, size - p))]]

Replacements_Ascending(sql, vals) ==
    LET size == Len(vals)
        numbered == Contains(sql, <<"$", "1">>)
        indexFunc(i) == IF numbered THEN formatNumbered(i) ELSE formatQuestioned(i)
    IN  [p \in 1..size |->
            [old |-> indexFunc(p - 1), new |-> formatValue(At(vals, p - 1))]]

formatSQL_Ascending(sql, vals) == Replace(Replacements_Ascending(sql, vals), sql)

formatSQL(sql, vals) == Replace(Replacements(sql, vals), sql)

-----------------------------------------------------------------------------
(* Inputs of the renderer. *)

SeqsUpTo(S, n) == UNION {[1..k -> S] : k \in 0..n}

\* A template is a sequence of segments: "?" (ph = 0), "$i" (ph = i > 0) or
\* literal text (ph = -1).
Q == [ph |-> 0, text |-> <<>>]

P(i) == [ph |-> i, text |-> <<>>]

T(s) == [ph |-> 0 - 1, text |-> s]

SegText(seg) ==
    IF seg.ph > 0 THEN <<"$">> \o Itoa(seg.ph)
    ELSE IF seg.ph = 0 THEN <<"?">>
    ELSE seg.text

TemplateText(segs) == Flatten([i \in 1..Len(segs) |-> SegText(segs[i])])

Comma == T(<<",">>)

RECURSIVE Ascending(_)
Ascending(n) == IF n = 1 THEN <<P(1)>> ELSE Ascending(n - 1) \o <<Comma, P(n)>>

RECURSIVE Descending(_)
Descending(n) == IF n = 1 THEN <<P(1)>> ELSE <<P(n), Comma>> \o Descending(n - 1)

SegAlphabet == {Q, P(1), P(2), P(10), T(<<"x", "=">>)}

Templates ==
    SeqsUpTo(SegAlphabet, MaxSegs)
        \cup {Ascending(n) : n \in 1..MaxVals}
        \cup {Descending(n) : n \in 1..MaxVals}

SmallValues == {IntV(123), Str(<<"a">>), Nil, Valuer(IntV(7), FALSE)}

\* Bound values that differ from each other and from each other's prefixes.
ManyInts(n) == [i \in 1..n |-> IntV(20 + i)]

ManyMixed(n) ==
    [i \in 1..n |-> IF i % 2 = 1 THEN Str(<<"v">> \o Itoa(i)) ELSE Int64V(i)]

BoundLists ==
    SeqsUpTo(SmallValues, MaxShort)
        \cup {ManyInts(n) : n \in (MaxShort + 1)..MaxVals}
        \cup {ManyMixed(n) : n \in (MaxShort + 1)..MaxVals}

Lengths == {0, 1, maxLen - 3, maxLen - 2, maxLen - 1, LongLen}

PlainValues ==
    {Nil, IntV(0), IntV(0 - 42), Int64V(123), Uint8(255), Bool(TRUE), Dur(2),
     Time(0), Time(86399), Bytes(<<"a", "NUL">>)}
        \cup {Str(Rep("a", n)) : n \in Lengths}
        \cup {Bytes(Rep("b", n)) : n \in Lengths}

Unwrapped ==
    {Nil, NilPtr, IntV(5), Str(<<"a">>), Str(Rep("a", maxLen - 1)), Ptr(IntV(5))}

RECURSIVE Wrapped(_)
Wrapped(d) ==
    IF d = 0 THEN Unwrapped
    ELSE {Valuer(dv, err) : dv \in Wrapped(d - 1), err \in BOOLEAN}

Valuers == UNION {Wrapped(d) : d \in 1..MaxDepth}

ValueArgs ==
    PlainValues \cup {NilPtr} \cup {Ptr(v) : v \in PlainValues \ {Nil}}
        \cup Valuers \cup {Ptr(v) : v \in Wrapped(1)}

-----------------------------------------------------------------------------
(* The Record decoder. *)

Levels == {"debug", "info", "warn", "error"}

\* zap.DebugLevel, the level New sets before the options run
DebugLevel == "debug"

\* zapcore.ErrorLevel
ErrorLevel == "error"

Encoders == {"DefaultRecordToFields", "custom"}

\* The zero Record (the zero zapcore.Level is InfoLevel).
ZeroRecord ==
    [Message |-> <<>>, Source |-> <<>>, Level |-> "info",
     Duration |-> 0, SQL |-> <<>>, RowsAffected |-> 0]

\* What a call of newRecord ends in: a Record, or a run-time panic.
Returned(r) == [panicked |-> FALSE, rec |-> r]

Panic == [panicked |-> TRUE, rec |-> ZeroRecord]

SqlTag == Str(<<"s", "q", "l">>)

LogTag == Str(<<"l", "o", "g">>)

\* len(values) < 2
fallbackRecord(lvl, values) ==
    Returned([ZeroRecord EXCEPT !.Message = Sprint(values), !.Level = lvl])

errorRecord_DefaultLevel(lvl, values) ==
    Returned([ZeroRecord EXCEPT !.Message = FmtV(At(values, 1)),
                                !.Source = FmtV(At(values, 0)),
                                !.Level = lvl])

\* len(values) == 2
errorRecord(lvl, values) ==
    Returned([ZeroRecord EXCEPT !.Message = FmtV(At(values, 1)),
                                !.Source = FmtV(At(values, 0)),
                                !.Level = ErrorLevel])

logRecord_AnyError(lvl, values) ==
    LET logLevel == IF \E i \in 2..(Len(values) - 1) : At(values, i).kind = "error"
                    THEN ErrorLevel ELSE lvl
    IN  Returned([ZeroRecord EXCEPT !.Message = Sprint(From(values, 2)),
                                    !.Source = FmtV(At(values, 1)),
                                    !.Level = logLevel])

\* level == "log"
logRecord(lvl, values) ==
    LET logLevel == IF At(values, 2).kind = "error" THEN ErrorLevel ELSE lvl
    IN  Returned([ZeroRecord EXCEPT !.Message = Sprint(From(values, 2)),
                                    !.Source = FmtV(At(values, 1)),
                                    !.Level = logLevel])

\* The type assertions and index expressions of the "sql" branch, in the
\* order Go evaluates them; each one that fails panics.
sqlShapeOk(values) ==
    /\ At(values, 2).kind = "duration"
    /\ Len(values) >= 4 /\ At(values, 3).kind = "string"
    /\ Len(values) >= 5 /\ At(values, 4).kind = "slice"
    /\ Len(values) >= 6 /\ At(values, 5).kind = "int64"

sqlRecord_ErrorLevel(lvl, values) ==
    IF ~sqlShapeOk(values) THEN Panic
    ELSE Returned([Message |-> GormQuery,
                   Source |-> FmtV(At(values, 1)),
                   Duration |-> At(values, 2).n,
                   SQL |-> formatSQL(At(values, 3).s, At(values, 4).in),
                   RowsAffected |-> At(values, 5).n,
                   Level |-> ErrorLevel])

\* The "sql" branch with checked (comma-ok) assertions: a missing or
\* ill-typed value is left at its zero value.
sqlRecord_Lenient(lvl, values) ==
    LET has(i, kind) == Len(values) > i /\ At(values, i).kind = kind
    IN  Returned([Message |-> GormQuery,
                  Source |-> FmtV(At(values, 1)),
                  Duration |-> IF has(2, "duration") THEN At(values, 2).n ELSE 0,
                  SQL |-> IF has(3, "string") /\ has(4, "slice")
                          THEN formatSQL(At(values, 3).s, At(values, 4).in)
                          ELSE <<>>,
                  RowsAffected |-> IF has(5, "int64") THEN At(values, 5).n ELSE 0,
                  Level |-> lvl])

\* level == "sql"
sqlRecord(lvl, values) ==
    IF ~sqlShapeOk(values) THEN Panic
    ELSE Returned([Message |-> GormQuery,
                   Source |-> FmtV(At(values, 1)),
                   Duration |-> At(values, 2).n,
                   SQL |-> formatSQL(At(values, 3).s, At(values, 4).in),
                   RowsAffected |-> At(values, 5).n,
                   Level |-> lvl])

\* any other first value
otherRecord(lvl, values) ==
    Returned([ZeroRecord EXCEPT !.Message = Sprint(From(values, 2)),
                                !.Source = FmtV(At(values, 1)),
                                !.Level = lvl])

newRecord(lvl, values) ==
    IF Len(values) < 2 THEN fallbackRecord(lvl, values)
    ELSE IF Len(values) = 2 THEN errorRecord(lvl, values)
    ELSE IF At(values, 0) = LogTag THEN logRecord(lvl, values)
    ELSE IF At(values, 0) = SqlTag THEN sqlRecord(lvl, values)
    ELSE otherRecord(lvl, values)

Field(key, val) == [key |-> key, val |-> val]

DefaultRecordToFields(r) ==
    IF r.SQL # <<>>
    THEN <<Field("sql.source", Str(r.Source)),
           Field("sql.duration", Dur(r.Duration)),
           Field("sql.query", Str(r.SQL)),
           Field("sql.rows_affected", Int64V(r.RowsAffected))>>
    ELSE <<Field("sql.source", Str(r.Source))>>

\* The mapping of ExampleWithRecordToFields, given with WithRecordToFields.
CustomRecordToFields(r) ==
    <<Field("caller", Str(r.Source)),
      Field("duration_ms", V("float32", r.Duration * 1000, <<>>, <<>>, FALSE)),
      Field("query", Str(r.SQL)),
      Field("rows_affected", Int64V(r.RowsAffected))>>

Encode(f, r) ==
    IF f = "DefaultRecordToFields" THEN DefaultRecordToFields(r)
    ELSE CustomRecordToFields(r)

NoEntry == [level |-> "none", msg |-> <<>>, fields |-> <<>>]

-----------------------------------------------------------------------------
(* The calls gorm, or anyone, may make. *)

Procs == 1..NumProcs

OtherTag == Str(<<"f", "o", "o">>)

File == Str(<<"f", ".", "g", "o">>)

Boom == Err(<<"b", "o", "o", "m">>)

Sources == {File, IntV(34)}

LogValues == {Boom, Str(<<"f", "o", "o">>), IntV(3)}

ShortCalls ==
    LET firsts == {SqlTag, LogTag, File, IntV(34)}
        seconds == {Boom, Str(<<"f", "o", "o">>), Nil, IntV(3)}
    IN  {<<>>} \cup {<<a>> : a \in firsts}
            \cup {<<a, b>> : a \in firsts, b \in seconds}

TaggedCalls ==
    {<<t, src>> \o r : t \in {LogTag, OtherTag}, src \in Sources,
                       r \in SeqsUpTo(LogValues, MaxLogArgs) \ {<<>>}}

\* Six values after the "sql" tag, of the right and of wrong types.
SqlCalls ==
    {<<SqlTag, File, d, t, b, r>> :
        d \in {Dur(0), Dur(2), Int64V(5)},
        t \in {Str(<<>>), Str(<<"?">>), Str(<<"i", "d", "=", "$", "1">>),
               Str(<<"x">>), Nil},
        b \in {Slice(<<>>), Slice(<<IntV(123)>>), Slice(<<Nil>>), Str(<<"a">>)},
        r \in {Int64V(0), Int64V(2), IntV(2)}}

Calls ==
    ShortCalls \cup TaggedCalls \cup SqlCalls
        \cup {SubSeq(c, 1, k) : c \in SqlCalls, k \in 3..5}
        \cup {c \o <<Str(<<"e", "x", "t", "r", "a">>)>> : c \in SqlCalls}

\* One call of each shape, for Print calls that run concurrently.
ConcurrentCalls ==
    {<<File>>,
     <<File, Boom>>,
     <<LogTag, File, Boom>>,
     <<LogTag, File, Str(<<"f", "o", "o">>), Boom>>,
     <<OtherTag, File, IntV(3)>>,
     <<SqlTag, File, Dur(2), Str(<<"?">>), Slice(<<IntV(123)>>), Int64V(2)>>,
     <<SqlTag, File, Dur(2), Str(<<>>), Slice(<<>>), Int64V(2)>>,
     <<SqlTag, File, Dur(2)>>}

-----------------------------------------------------------------------------
(* The Logger. *)

\* A panic nobody recovers ends the program.
Running == \A g \in Procs : pc[g] # "panicked"

\* New(origin, opts...): the level is debug unless WithLevel sets it, the
\* mapping DefaultRecordToFields unless WithRecordToFields sets it.
Constructed ==
    /\ level \in Levels
    /\ encoderFunc \in Encoders
    /\ pc = [g \in Procs |-> "idle"]
    /\ args = [g \in Procs |-> <<>>]
    /\ rec = [g \in Procs |-> ZeroRecord]
    /\ entry = [g \in Procs |-> NoEntry]

NoRendering ==
    /\ op = "none"
    /\ tpl = <<>>
    /\ bound = <<>>
    /\ arg = Nil
    /\ out = <<>>
    /\ done = FALSE

Init == Constructed /\ NoRendering

\* Print, first half: rec := l.newRecord(values...)
PrintCall(g, values) ==
    /\ Running
    /\ pc[g] = "idle"
    /\ LET r == newRecord(level, values)
       IN  /\ pc' = [pc EXCEPT ![g] = IF r.panicked THEN "panicked" ELSE "decoded"]
           /\ rec' = [rec EXCEPT ![g] = r.rec]
    /\ args' = [args EXCEPT ![g] = values]
    /\ UNCHANGED <<level, encoderFunc, entry>>
    /\ UNCHANGED formatVars

PrintWrite_StoresLevel(g) ==
    /\ Running
    /\ pc[g] = "decoded"
    /\ level' = rec[g].Level
    /\ entry' = [entry EXCEPT ![g] = [level |-> rec[g].Level,
                                      msg |-> rec[g].Message,
                                      fields |-> Encode(encoderFunc, rec[g])]]
    /\ pc' = [pc EXCEPT ![g] = "written"]
    /\ UNCHANGED <<encoderFunc, args, rec>>
    /\ UNCHANGED formatVars

\* Print, second half:
\* l.origin.Check(rec.Level, rec.Message).Write(l.encoderFunc(rec)...)
PrintWrite(g) ==
    /\ Running
    /\ pc[g] = "decoded"
    /\ entry' = [entry EXCEPT ![g] = [level |-> rec[g].Level,
                                      msg |-> rec[g].Message,
                                      fields |-> Encode(encoderFunc, rec[g])]]
    /\ pc' = [pc EXCEPT ![g] = "written"]
    /\ UNCHANGED <<level, encoderFunc, args, rec>>
    /\ UNCHANGED formatVars

\* Print returns; its Record and its values are gone.
PrintReturn(g) ==
    /\ Running
    /\ pc[g] = "written"
    /\ pc' = [pc EXCEPT ![g] = "idle"]
    /\ args' = [args EXCEPT ![g] = <<>>]
    /\ rec' = [rec EXCEPT ![g] = ZeroRecord]
    /\ entry' = [entry EXCEPT ![g] = NoEntry]
    /\ UNCHANGED <<level, encoderFunc>>
    /\ UNCHANGED formatVars

\* One goroutine, every call.
Next ==
    \/ \E values \in Calls : PrintCall(1, values)
    \/ PrintWrite(1)
    \/ PrintReturn(1)

Spec == Init /\ [][Next]_vars

\* Print on any number of goroutines at once.
NextConcurrent ==
    \/ \E g \in Procs, values \in ConcurrentCalls : PrintCall(g, values)
    \/ \E g \in Procs : PrintWrite(g)
    \/ \E g \in Procs : PrintReturn(g)

SpecConcurrent == Init /\ [][NextConcurrent]_vars

-----------------------------------------------------------------------------
(* The renderer, applied to every input. *)

InitFormat ==
    /\ level = DebugLevel
    /\ encoderFunc = "DefaultRecordToFields"
    /\ pc = [g \in Procs |-> "idle"]
    /\ args = [g \in Procs |-> <<>>]
    /\ rec = [g \in Procs |-> ZeroRecord]
    /\ entry = [g \in Procs |-> NoEntry]
    /\ out = <<>>
    /\ done = FALSE
    /\ \/ op = "sql" /\ tpl \in Templates /\ bound \in BoundLists /\ arg = Nil
       \/ op = "val" /\ tpl = <<>> /\ bound = <<>> /\ arg \in ValueArgs

FormatSQLCall ==
    /\ op = "sql"
    /\ ~done
    /\ out' = formatSQL(TemplateText(tpl), bound)
    /\ done' = TRUE
    /\ UNCHANGED <<op, tpl, bound, arg>>
    /\ UNCHANGED loggerVars

FormatValueCall ==
    /\ op = "val"
    /\ ~done
    /\ out' = formatValue(arg)
    /\ done' = TRUE
    /\ UNCHANGED <<op, tpl, bound, arg>>
    /\ UNCHANGED loggerVars

NextFormat == FormatSQLCall \/ FormatValueCall

SpecFormat == InitFormat /\ [][NextFormat]_vars

-----------------------------------------------------------------------------
(* Properties of the decoder (Spec, SpecConcurrent). *)

\* The goroutine holds the Record newRecord returned.
Decoded(g) == pc[g] \in {"decoded", "written"}

\* tag, source, duration, template, bound values, rows affected: six values
\* of the expected types.
WellFormedSql(vals) ==
    /\ Len(vals) = 6
    /\ At(vals, 0) = SqlTag
    /\ At(vals, 2).kind = "duration"
    /\ At(vals, 3).kind = "string"
    /\ At(vals, 4).kind = "slice"
    /\ At(vals, 5).kind = "int64"

\* C1: a well-formed "sql" call is decoded, without a panic, into a Record with
\* the message "gorm query", the string form of position 1 as source, position
\* 2 as duration, formatSQL(position 3, position 4) as SQL, position 5 as
\* rows affected, and the configured level as severity: the severity is error
\* only when error is the configured level.
C1_SqlRecord ==
    \A g \in Procs :
        (pc[g] # "idle" /\ WellFormedSql(args[g])) =>
            /\ Decoded(g)
            /\ rec[g].Message = GormQuery
            /\ rec[g].Source = FmtV(At(args[g], 1))
            /\ rec[g].Duration = At(args[g], 2).n
            /\ rec[g].SQL = formatSQL(At(args[g], 3).s, At(args[g], 4).in)
            /\ rec[g].RowsAffected = At(args[g], 5).n
            /\ rec[g].Level = level
            /\ (level # ErrorLevel => rec[g].Level # ErrorLevel)

\* The example of the tests, under a level set with WithLevel: "id=$1" with the
\* value 123, two seconds, two rows.
C1_Witness ==
    /\ level = "warn"
    /\ pc[1] = "written"
    /\ args[1] = <<SqlTag, File, Dur(2), Str(<<"i", "d", "=", "$", "1">>),
                   Slice(<<IntV(123)>>), Int64V(2)>>
    /\ rec[1] = [Message |-> GormQuery, Source |-> <<"f", ".", "g", "o">>,
                 Level |-> "warn", Duration |-> 2,
                 SQL |-> <<"i", "d", "=", "1", "2", "3">>, RowsAffected |-> 2]
    /\ entry[1].level = "warn"

\* C2: a call with exactly 2 values is decoded into a Record of severity error,
\* whatever the configured level, with the string form of the second value as
\* message and of the first value as source; the sink gets it at error level.
C2_TwoValuesIsError ==
    \A g \in Procs :
        (pc[g] # "idle" /\ Len(args[g]) = 2) =>
            /\ Decoded(g)
            /\ rec[g].Level = ErrorLevel
            /\ rec[g].Message = FmtV(At(args[g], 1))
            /\ rec[g].Source = FmtV(At(args[g], 0))
            /\ (pc[g] = "written" => entry[g].level = ErrorLevel)

C2_Witness ==
    /\ level = "warn"
    /\ pc[1] = "written"
    /\ args[1] = <<File, Boom>>
    /\ rec[1].Message = <<"b", "o", "o", "m">>
    /\ rec[1].Source = <<"f", ".", "g", "o">>
    /\ entry[1].level = ErrorLevel

IsLogCall(vals) == Len(vals) >= 3 /\ At(vals, 0) = LogTag

MalformedSql(vals) ==
    /\ Len(vals) >= 1
    /\ At(vals, 0) = SqlTag
    /\ ~WellFormedSql(vals)

\* C6, as stated: every malformed "sql" call, of every arity, ends in a panic
\* and returns no Record.
C6_MalformedSqlPanics ==
    \A g \in Procs :
        (pc[g] # "idle" /\ MalformedSql(args[g])) => pc[g] = "panicked"

\* One of the positions 2 to 5 is missing or holds a value of the wrong type.
BadSqlShape(vals) ==
    \/ Len(vals) < 6
    \/ At(vals, 2).kind # "duration"
    \/ At(vals, 3).kind # "string"
    \/ At(vals, 4).kind # "slice"
    \/ At(vals, 5).kind # "int64"

\* C6, amended: a call with at least 3 values whose first value is "sql" and
\* which has fewer than 6 values, or a value of the wrong type at one of the
\* positions 2 to 5, ends in a panic, and nothing of it reaches the sink.  A
\* call with 1 or 2 values is decoded by its arity whatever its first value,
\* and the values after position 5 are ignored: the Record is that of the
\* first six values.
C6_BadShapePanics ==
    \A g \in Procs :
        /\ (/\ pc[g] # "idle"
            /\ Len(args[g]) >= 3
            /\ At(args[g], 0) = SqlTag
            /\ BadSqlShape(args[g])) =>
              /\ pc[g] = "panicked"
              /\ entry[g] = NoEntry
              /\ rec[g] = ZeroRecord
        /\ (pc[g] # "idle" /\ Len(args[g]) <= 2) => Decoded(g)
        /\ (/\ pc[g] # "idle"
            /\ Len(args[g]) > 6
            /\ At(args[g], 0) = SqlTag
            /\ ~BadSqlShape(args[g])) =>
              /\ Decoded(g)
              /\ rec[g] = newRecord(level, SubSeq(args[g], 1, 6)).rec

\* A "sql" call that stops after the template panics.
C6_Witness ==
    /\ pc[1] = "panicked"
    /\ Len(args[1]) = 4
    /\ At(args[1], 3).kind = "string"
    /\ entry[1] = NoEntry

HasField(fields, key) == \E i \in 1..Len(fields) : fields[i].key = key

\* The call takes the "sql" branch of the decoder.
IsSqlCall(vals) == Len(vals) >= 3 /\ At(vals, 0) = SqlTag

\* C9, as stated: a Record holds a rendered SQL exactly when it comes from a
\* "sql" call, and the default mapping emits sql.query, sql.rows_affected and
\* sql.duration for every "sql" call, the empty template included, and for no
\* other call.
C9_SqlFieldsIffSqlCall ==
    \A g \in Procs :
        (pc[g] = "written" /\ encoderFunc = "DefaultRecordToFields") =>
            /\ rec[g].SQL # <<>> <=> IsSqlCall(args[g])
            /\ HasField(entry[g].fields, "sql.query") <=> IsSqlCall(args[g])
            /\ HasField(entry[g].fields, "sql.rows_affected") <=> IsSqlCall(args[g])
            /\ HasField(entry[g].fields, "sql.duration") <=> IsSqlCall(args[g])

\* C10: no step of any Print call changes the Logger's level or its mapping;
\* the Record a goroutine holds is the one its values and the configuration
\* give, whatever the other goroutines did or do, so two goroutines with the
\* same values hold the same Record and hand the same entry to the sink.
C10_ConfigurationIsReadOnly ==
    /\ [][level' = level /\ encoderFunc' = encoderFunc]_vars
    /\ [](\A g \in Procs :
            /\ Decoded(g) => rec[g] = newRecord(level, args[g]).rec
            /\ pc[g] = "written" =>
                  entry[g] = [level |-> rec[g].Level, msg |-> rec[g].Message,
                              fields |-> Encode(encoderFunc, rec[g])]
            /\ \A h \in Procs :
                  (Decoded(g) /\ Decoded(h) /\ args[g] = args[h]) =>
                      rec[g] = rec[h])

\* Two goroutines inside Print at once with the same values, one of them
\* already past its write.
C10_Witness ==
    /\ pc[1] = "written"
    /\ pc[2] = "decoded"
    /\ args[1] = args[2]
    /\ IsSqlCall(args[1])
    /\ rec[1] = rec[2]

-----------------------------------------------------------------------------
(* Properties of the renderer (SpecFormat). *)

Rendered == op = "sql" /\ done

\* How many of the first i segments are "?".
QIndex(segs, i) == Cardinality({j \in 1..i : segs[j].ph = 0})

\* The template with its j-th "?" replaced by the j-th value.
ExpectedAnonymous(segs, vals) ==
    Flatten([i \in 1..Len(segs) |->
                IF segs[i].ph = 0 THEN formatValue(vals[QIndex(segs, i)])
                ELSE SegText(segs[i])])

\* C4, as stated: in a template without "$1", with k >= 1 occurrences of "?"
\* and k bound values, the j-th "?" from the left is replaced by formatValue
\* of the j-th value.
C4_AnonymousInOrder ==
    (/\ Rendered
     /\ ~Contains(TemplateText(tpl), <<"$", "1">>)
     /\ Len(bound) >= 1
     /\ QIndex(tpl, Len(tpl)) = Len(bound))
        => out = ExpectedAnonymous(tpl, bound)

\* The template with every "$i" replaced by the i-th value.
ExpectedNumbered(segs, vals) ==
    Flatten([i \in 1..Len(segs) |->
                IF segs[i].ph > 0 THEN formatValue(vals[segs[i].ph])
                ELSE SegText(segs[i])])

\* The template is in numbered style and each of its "$i" has a bound value.
NumberedWithin(segs, vals) ==
    /\ Contains(TemplateText(segs), <<"$", "1">>)
    /\ \A i \in 1..Len(segs) : segs[i].ph <= Len(vals)

\* C5: in a template of numbered style whose placeholders all have a bound
\* value, every occurrence of "$i" is replaced by formatValue of the i-th
\* value, for one-digit and for longer markers alike: "$10" becomes the tenth
\* value, not the first value followed by "0", and no placeholder is left.
C5_NumberedByIndex ==
    (Rendered /\ NumberedWithin(tpl, bound)) =>
        out = ExpectedNumbered(tpl, bound)

\* "$1" and "$10" in one template with at least ten distinct values.
C5_Witness ==
    /\ Rendered
    /\ NumberedWithin(tpl, bound)
    /\ Len(bound) >= 10
    /\ \E i, j \in 1..Len(tpl) : tpl[i].ph = 1 /\ tpl[j].ph = 10
    /\ formatValue(bound[10]) # formatValue(bound[1]) \o <<"0">>
    /\ out = ExpectedNumbered(tpl, bound)

Formatted == op = "val" /\ done

\* The value a pointer points to; any other value itself.
Pointee(v) == IF v.kind = "ptr" /\ v.in # <<>> THEN v.in[1] ELSE v

IntegerKinds == {"int", "int64", "uint8"}

\* The values formatValue renders as a quoted string: printable bytes, and
\* the values of no special kind.
IsQuoted(v) ==
    \/ v.kind = "bytes" /\ isPrintable(v.s)
    \/ v.kind \in {"string", "bool", "duration"}

QuotedText(v) == IF v.kind = "bytes" THEN v.s ELSE FmtV(v)

\* C7: a value rendered as a quoted string comes out as '<redacted>' when its
\* text with the two quotes is longer than 255, and as the quoted text when it
\* is 255 long or shorter; an integer comes out as its decimal digits, without
\* quotes and never redacted.
C7_RedactOverMaxLen ==
    Formatted =>
        LET v == Pointee(arg)
        IN  /\ IsQuoted(v) =>
                  out = IF Len(QuotedText(v)) + 2 > 255 THEN Redacted
                        ELSE <<"'">> \o QuotedText(v) \o <<"'">>
            /\ v.kind \in IntegerKinds =>
                  /\ out = Itoa(v.n)
                  /\ out # Redacted
                  /\ \A i \in 1..Len(out) : out[i] # "'"

\* A string whose quoted text is exactly 255 long is kept.
C7_Witness ==
    /\ Formatted
    /\ arg.kind = "string"
    /\ Len(arg.s) + 2 = 255
    /\ out = <<"'">> \o arg.s \o <<"'">>
    /\ out # Redacted

\* A value with nothing to render: nil, a nil pointer, or, behind at most one
\* pointer, a provider whose Value() fails, returns nil, or returns such a
\* value again.
RECURSIVE IsNullLike(_)
IsNullLike(v) ==
    \/ v.kind = "nil"
    \/ v.kind = "ptr" /\ v.in = <<>>
    \/ /\ Pointee(v).kind = "valuer"
       /\ \/ Pointee(v).err
          \/ IsNullLike(Pointee(v).in[1])

\* C8: formatValue returns NULL, unquoted, for nil, for a nil pointer, and for
\* a provider whose Value() fails or yields nil, through any number of nested
\* providers; it returns a string in every case (the failure is not passed
\* on); a provider whose Value() succeeds with a value that is not nil is
\* rendered as that value is.
C8_NullLikeIsNULL ==
    Formatted =>
        /\ IsNullLike(arg) => out = NULL
        /\ (Pointee(arg).kind = "valuer" /\ ~IsNullLike(arg)) =>
              /\ out = formatValue(Pointee(arg).in[1])
              /\ out # NULL

\* Two providers deep: the outer Value() succeeds, the inner one fails while
\* holding a value.
C8_Witness ==
    /\ Formatted
    /\ arg = Valuer(Valuer(IntV(5), TRUE), FALSE)
    /\ out = NULL

=============================================================================
